---- MODULE Spec2Model ----
(***************************************************************************)
(* A model of SimpleLibrary (projects/ng-simple-library/src/lib/           *)
(* simple-library.ts): the active language code, the localStorage wrapper, *)
(* the language lookups and the pure helpers patchMarker, httpBuildQuery,  *)
(* isEmpty and isEqual.                                                    *)
(*                                                                         *)
(* JavaScript values are records tagged by t; a JavaScript string is a     *)
(* sequence of one-character strings, so that JSON.stringify, JSON.parse,  *)
(* String.prototype.replace and encodeURIComponent are computed character  *)
(* by character.  A raised exception is the value Throw(name).             *)
(***************************************************************************)
EXTENDS Integers, Sequences, FiniteSets

VARIABLES languageCode, localStorage, navigator, lastSet, call

vars == <<languageCode, localStorage, navigator, lastSet, call>>

----------------------------------------------------------------------------
(* JavaScript values *)

Undefined == [t |-> "undefined"]
Null == [t |-> "null"]
Bool(b) == [t |-> "boolean", b |-> b]
Num(n) == [t |-> "number", n |-> n]
Str(s) == [t |-> "string", s |-> s]
Arr(a) == [t |-> "array", a |-> a]
Obj(ps) == [t |-> "object", o |-> ps]
Throw(e) == [t |-> "throw", e |-> e]
Prop(k, x) == [k |-> k, v |-> x]

\* typeof x === 'object' (true of null, arrays and plain objects)
TypeofObject(x) == x.t \in {"null", "array", "object"}

\* ToBoolean(x), the test of if (x) and of !x
Truthy(x) ==
  CASE x.t \in {"undefined", "null"} -> FALSE
    [] x.t = "boolean" -> x.b
    [] x.t = "number" -> x.n # 0
    [] x.t = "string" -> x.s # <<>>
    [] OTHER -> TRUE

RECURSIVE NatToStr(_)
NatToStr(n) ==
  LET d == <<"0", "1", "2", "3", "4", "5", "6", "7", "8", "9">>[(n % 10) + 1]
  IN IF n < 10 THEN <<d>> ELSE Append(NatToStr(n \div 10), d)

\* Number::toString for the integers
NumToStr(n) == IF n < 0 THEN <<"-">> \o NatToStr(-n) ELSE NatToStr(n)

RECURSIVE Join(_, _)
\* Array.prototype.join on a sequence of strings
Join(parts, sep) ==
  IF parts = <<>> THEN <<>>
  ELSE IF Len(parts) = 1 THEN parts[1]
  ELSE parts[1] \o sep \o Join(Tail(parts), sep)

RECURSIVE ToStr(_)
\* ToString(x), the coercion applied to a non-string argument
ToStr(x) ==
  CASE x.t = "undefined" -> <<"u", "n", "d", "e", "f", "i", "n", "e", "d">>
    [] x.t = "null" -> <<"n", "u", "l", "l">>
    [] x.t = "boolean" ->
         IF x.b THEN <<"t", "r", "u", "e">> ELSE <<"f", "a", "l", "s", "e">>
    [] x.t = "number" -> NumToStr(x.n)
    [] x.t = "string" -> x.s
    [] x.t = "array" ->
         Join([i \in 1..Len(x.a) |->
                 IF x.a[i].t \in {"undefined", "null"} THEN <<>>
                 ELSE ToStr(x.a[i])], <<",">>)
    [] OTHER -> <<"[", "o", "b", "j", "e", "c", "t", " ",
                  "O", "b", "j", "e", "c", "t", "]">>

\* Object.keys(x): the index names of an array or a string, the own keys of a
\* plain object in insertion order (the objects of this model carry no
\* integer-like keys, which JavaScript would move to the front), none for
\* the other primitives; null and undefined raise TypeError.
ObjectKeys(x) ==
  CASE x.t \in {"undefined", "null"} -> Throw("TypeError")
    [] x.t = "array" -> Arr([i \in 1..Len(x.a) |-> Str(NatToStr(i - 1))])
    [] x.t = "string" -> Arr([i \in 1..Len(x.s) |-> Str(NatToStr(i - 1))])
    [] x.t = "object" -> Arr([i \in 1..Len(x.o) |-> Str(x.o[i].k)])
    [] OTHER -> Arr(<<>>)

IsIndex(k, n) == \E i \in 0..(n - 1) : NatToStr(i) = k

IndexOf(k, n) == CHOOSE i \in 0..(n - 1) : NatToStr(i) = k

\* x[k], a property read with a string key
GetProp(x, k) ==
  CASE x.t \in {"undefined", "null"} -> Throw("TypeError")
    [] x.t = "object" ->
         IF \E i \in 1..Len(x.o) : x.o[i].k = k
         THEN x.o[CHOOSE i \in 1..Len(x.o) : x.o[i].k = k].v
         ELSE Undefined
    [] x.t = "array" ->
         IF IsIndex(k, Len(x.a)) THEN x.a[IndexOf(k, Len(x.a)) + 1] ELSE Undefined
    [] x.t = "string" ->
         IF IsIndex(k, Len(x.s)) THEN Str(<<x.s[IndexOf(k, Len(x.s)) + 1]>>)
         ELSE Undefined
    [] OTHER -> Undefined

\* x.length
LengthOf(x) ==
  CASE x.t = "array" -> Num(Len(x.a))
    [] x.t = "string" -> Num(Len(x.s))
    [] x.t = "object" -> GetProp(x, <<"l", "e", "n", "g", "t", "h">>)
    [] OTHER -> Undefined

----------------------------------------------------------------------------
(* JSON.stringify and JSON.parse *)

RECURSIVE QuoteChars(_)
QuoteChars(s) ==
  IF s = <<>> THEN <<>>
  ELSE (IF Head(s) \in {"\"", "\\"} THEN <<"\\", Head(s)>> ELSE <<Head(s)>>)
       \o QuoteChars(Tail(s))

\* QuoteJSONString: the string in double quotes, '"' and '\' escaped
Quote(s) == <<"\"">> \o QuoteChars(s) \o <<"\"">>

RECURSIVE Serialize(_)
\* SerializeJSONProperty; the empty sequence stands for "no text" (undefined)
Serialize(x) ==
  CASE x.t = "undefined" -> <<>>
    [] x.t = "string" -> Quote(x.s)
    [] x.t = "array" ->
         <<"[">> \o
         Join([i \in 1..Len(x.a) |->
                 IF x.a[i].t = "undefined" THEN <<"n", "u", "l", "l">>
                 ELSE Serialize(x.a[i])], <<",">>)
         \o <<"]">>
    [] x.t = "object" ->
         LET kept == SelectSeq(x.o, LAMBDA p : p.v.t # "undefined")
         IN <<"{">> \o
            Join([i \in 1..Len(kept) |->
                    Quote(kept[i].k) \o <<":">> \o Serialize(kept[i].v)], <<",">>)
            \o <<"}">>
    [] OTHER -> ToStr(x)

\* JSON.stringify(x): a string, or undefined when x is undefined
JSONstringify(x) == IF x.t = "undefined" THEN Undefined ELSE Str(Serialize(x))

PFail == [ok |-> FALSE, v |-> Null, rest |-> <<>>]

POk(x, rest) == [ok |-> TRUE, v |-> x, rest |-> rest]

StartsWith(s, p) == Len(s) >= Len(p) /\ SubSeq(s, 1, Len(p)) = p

Drop(s, n) == SubSeq(s, n + 1, Len(s))

DigitChars == {"0", "1", "2", "3", "4", "5", "6", "7", "8", "9"}

DigitOf(c) == CHOOSE d \in 0..9 : NatToStr(d) = <<c>>

RECURSIVE ParseDigits(_, _)
ParseDigits(s, acc) ==
  IF s # <<>> /\ Head(s) \in DigitChars
  THEN ParseDigits(Tail(s), acc * 10 + DigitOf(Head(s)))
  ELSE POk(Num(acc), s)

\* A JSON number without fraction or exponent: -? (0 | [1-9][0-9]*)
ParseNumber(s) ==
  LET neg == Head(s) = "-"
      body == IF neg THEN Tail(s) ELSE s
      r == IF body = <<>> \/ Head(body) \notin DigitChars THEN PFail
           ELSE IF Head(body) = "0" THEN POk(Num(0), Tail(body))
           ELSE ParseDigits(body, 0)
  IN IF r.ok /\ neg THEN POk(Num(0 - r.v.n), r.rest) ELSE r

RECURSIVE ParseString(_, _)
\* A JSON string after its opening quote; escapes \" \\ and \/
ParseString(s, acc) ==
  IF s = <<>> THEN PFail
  ELSE IF Head(s) = "\"" THEN POk(Str(acc), Tail(s))
  ELSE IF Head(s) = "\\"
       THEN IF Len(s) >= 2 /\ s[2] \in {"\"", "\\", "/"}
            THEN ParseString(Drop(s, 2), Append(acc, s[2]))
            ELSE PFail
  ELSE ParseString(Tail(s), Append(acc, Head(s)))

\* CreateDataProperty on parsing: a repeated key keeps its place, the last value wins
ObjPut(ps, k, x) ==
  IF \E i \in 1..Len(ps) : ps[i].k = k
  THEN [i \in 1..Len(ps) |-> IF ps[i].k = k THEN Prop(k, x) ELSE ps[i]]
  ELSE Append(ps, Prop(k, x))

RECURSIVE ParseValue(_), ParseElements(_, _), ParseMembers(_, _)
ParseValue(s) ==
  IF s = <<>> THEN PFail
  ELSE CASE StartsWith(s, <<"n", "u", "l", "l">>) -> POk(Null, Drop(s, 4))
         [] StartsWith(s, <<"t", "r", "u", "e">>) -> POk(Bool(TRUE), Drop(s, 4))
         [] StartsWith(s, <<"f", "a", "l", "s", "e">>) -> POk(Bool(FALSE), Drop(s, 5))
         [] Head(s) = "\"" -> ParseString(Tail(s), <<>>)
         [] Head(s) = "-" \/ Head(s) \in DigitChars -> ParseNumber(s)
         [] Head(s) = "[" ->
              IF Len(s) >= 2 /\ s[2] = "]" THEN POk(Arr(<<>>), Drop(s, 2))
              ELSE ParseElements(Tail(s), <<>>)
         [] Head(s) = "{" ->
              IF Len(s) >= 2 /\ s[2] = "}" THEN POk(Obj(<<>>), Drop(s, 2))
              ELSE ParseMembers(Tail(s), <<>>)
         [] OTHER -> PFail

ParseElements(s, acc) ==
  LET r == ParseValue(s)
  IN IF ~r.ok \/ r.rest = <<>> THEN PFail
     ELSE IF Head(r.rest) = "," THEN ParseElements(Tail(r.rest), Append(acc, r.v))
     ELSE IF Head(r.rest) = "]" THEN POk(Arr(Append(acc, r.v)), Tail(r.rest))
     ELSE PFail

ParseMembers(s, acc) ==
  IF s = <<>> \/ Head(s) # "\"" THEN PFail
  ELSE LET k == ParseString(Tail(s), <<>>)
       IN IF ~k.ok \/ k.rest = <<>> \/ Head(k.rest) # ":" THEN PFail
          ELSE LET r == ParseValue(Tail(k.rest))
               IN IF ~r.ok \/ r.rest = <<>> THEN PFail
                  ELSE IF Head(r.rest) = ","
                       THEN ParseMembers(Tail(r.rest), ObjPut(acc, k.v.s, r.v))
                  ELSE IF Head(r.rest) = "}"
                       THEN POk(Obj(ObjPut(acc, k.v.s, r.v)), Tail(r.rest))
                  ELSE PFail

\* JSON.parse(text): the value, or SyntaxError unless the whole text is one value
JSONparse(text) ==
  LET r == ParseValue(text)
  IN IF r.ok /\ r.rest = <<>> THEN r.v ELSE Throw("SyntaxError")

----------------------------------------------------------------------------
(* String helpers of the runtime used by the library *)

\* The least index at which pat occurs in s, 0 when it does not
IndexOfSub(s, pat) ==
  LET hits == {i \in 1..(Len(s) - Len(pat) + 1) : SubSeq(s, i, i + Len(pat) - 1) = pat}
  IN IF hits = {} THEN 0 ELSE CHOOSE i \in hits : \A j \in hits : i <= j

\* The grave accent character (U+0060), which the TLA+ lexer does not accept
\* inside a string literal
Grave == "GRAVE"

RECURSIVE GetSubstitution(_, _, _, _)
\* GetSubstitution for a string pattern (no captures): $$ is "$", $& the
\* match, $ followed by a grave accent the text before it, $' the text after
\* it, any other $ is itself
GetSubstitution(r, matched, before, after) ==
  IF r = <<>> THEN <<>>
  ELSE IF Head(r) = "$" /\ Len(r) >= 2 /\ r[2] \in {"$", "&", Grave, "'"}
       THEN (CASE r[2] = "$" -> <<"$">>
               [] r[2] = "&" -> matched
               [] r[2] = Grave -> before
               [] r[2] = "'" -> after)
            \o GetSubstitution(Drop(r, 2), matched, before, after)
  ELSE <<Head(r)>> \o GetSubstitution(Tail(r), matched, before, after)

\* String.prototype.replace(pat, value) with a string pattern and a value that
\* is not a function: the first occurrence only, the value coerced to a string
\* and expanded by GetSubstitution
StringReplace(s, pat, value) ==
  LET i == IndexOfSub(s, pat)
      before == SubSeq(s, 1, i - 1)
      after == Drop(s, i + Len(pat) - 1)
  IN IF i = 0 THEN s
     ELSE before \o GetSubstitution(ToStr(value), pat, before, after) \o after

\* String.prototype.substring(0, n)
Substring0(s, n) == SubSeq(s, 1, IF Len(s) < n THEN Len(s) ELSE n)

Unreserved ==
  {"a", "b", "c", "d", "e", "f", "g", "h", "i", "j", "k", "l", "m", "n", "o", "p",
   "q", "r", "s", "t", "u", "v", "w", "x", "y", "z",
   "A", "B", "C", "D", "E", "F", "G", "H", "I", "J", "K", "L", "M", "N", "O", "P",
   "Q", "R", "S", "T", "U", "V", "W", "X", "Y", "Z",
   "-", "_", ".", "!", "~", "*", "'", "(", ")"} \cup DigitChars

\* The escape of one ASCII character that encodeURIComponent does not keep
PercentCode(c) ==
  CASE c = " " -> <<"%", "2", "0">>
    [] c = "\"" -> <<"%", "2", "2">>
    [] c = "#" -> <<"%", "2", "3">>
    [] c = "$" -> <<"%", "2", "4">>
    [] c = "%" -> <<"%", "2", "5">>
    [] c = "&" -> <<"%", "2", "6">>
    [] c = "," -> <<"%", "2", "C">>
    [] c = "/" -> <<"%", "2", "F">>
    [] c = ":" -> <<"%", "3", "A">>
    [] c = "=" -> <<"%", "3", "D">>
    [] c = "[" -> <<"%", "5", "B">>
    [] c = "\\" -> <<"%", "5", "C">>
    [] c = "]" -> <<"%", "5", "D">>
    [] c = Grave -> <<"%", "6", "0">>
    [] c = "{" -> <<"%", "7", "B">>
    [] c = "}" -> <<"%", "7", "D">>

RECURSIVE EncodeChars(_)
EncodeChars(s) ==
  IF s = <<>> THEN <<>>
  ELSE (IF Head(s) \in Unreserved THEN <<Head(s)>> ELSE PercentCode(Head(s)))
       \o EncodeChars(Tail(s))

\* encodeURIComponent(x): x coerced to a string, every character outside the
\* unreserved set percent-encoded
EncodeURIComponent(x) == EncodeChars(ToStr(x))

\* a === b where not both are objects (two distinct objects are never ===)
StrictEquals(a, b) == a.t \notin {"array", "object"} /\ a = b

----------------------------------------------------------------------------
(* SimpleLibrary: the pure helpers *)

\* const LANGUAGE_CODE = 'language_code'
LANGUAGE_CODE == <<"l", "a", "n", "g", "u", "a", "g", "e", "_", "c", "o", "d", "e">>

EN == <<"e", "n">>

CODE_EMPTY == <<"C", "O", "D", "E", "_", "E", "M", "P", "T", "Y">>

RECURSIVE PatchLoop(_, _, _)
\* for (const k of keys) { str = str.replace('#' + k, info[k]); }
\* str.replace raises TypeError when str is not a string
PatchLoop(str, keys, info) ==
  IF keys = <<>> THEN str
  ELSE IF str.t # "string" THEN Throw("TypeError")
  ELSE PatchLoop(Str(StringReplace(str.s, <<"#">> \o keys[1].s, GetProp(info, keys[1].s))),
                 Tail(keys), info)

\* static patchMarker(str, info: object = null)
PatchMarker(str, info0) ==
  LET info == IF info0.t = "undefined" THEN Null ELSE info0
  IN IF info.t = "null" \/ ~TypeofObject(info) THEN str
     ELSE LET keys == ObjectKeys(info).a
          IN IF Len(keys) = 0 THEN str ELSE PatchLoop(str, keys, info)

\* static isEmpty(what)
IsEmpty(what) ==
  IF ~Truthy(what) THEN TRUE
  ELSE IF TypeofObject(what) THEN Len(ObjectKeys(what).a) = 0
  ELSE IF what.t = "array" THEN Len(what.a) = 0
  ELSE FALSE

\* static httpBuildQuery(params)
HttpBuildQuery(params) ==
  IF IsEmpty(params) THEN Null
  ELSE LET keys == ObjectKeys(params).a
       IN IF Len(keys) = 0 THEN Null
          ELSE Str(Join([i \in 1..Len(keys) |->
                           EncodeURIComponent(keys[i]) \o <<"=">>
                           \o EncodeURIComponent(GetProp(params, keys[i].s))],
                        <<"&">>))

\* static isEqual(a, b)
IsEqual(a, b) ==
  IF TypeofObject(a) /\ TypeofObject(b)
  THEN LET aKeys == ObjectKeys(a)
           bKeys == ObjectKeys(b)
       IN IF aKeys.t = "throw" THEN aKeys
          ELSE IF bKeys.t = "throw" THEN bKeys
          ELSE IF Len(aKeys.a) # Len(bKeys.a) THEN Bool(FALSE)
          ELSE Bool(\A i \in 1..Len(aKeys.a) : aKeys.a[i] = bKeys.a[i])
  ELSE IF a.t = "array" /\ b.t = "array"
  THEN IF Len(a.a) # Len(b.a) THEN Bool(FALSE)
       ELSE Bool(\A i \in 1..Len(a.a) : StrictEquals(a.a[i], b.a[i]))
  ELSE Bool(StrictEquals(a, b))

----------------------------------------------------------------------------
(* SimpleLibrary: the language and storage functions, as functions of the   *)
(* state they read                                                          *)

NonEmpty(language) == Truthy(language) /\ Truthy(LengthOf(language))

\* The first element of seq that passes (language && language.length), else dflt
FirstNonEmpty(seq, dflt) ==
  LET hits == {i \in 1..Len(seq) : NonEmpty(seq[i])}
  IN IF hits = {} THEN dflt ELSE seq[CHOOSE i \in hits : \A j \in hits : i <= j]

\* static getBrowserLanguage(full = false)
GetBrowserLanguage(nav, full) ==
  LET ln1 == IF nav.languages.t = "array" THEN FirstNonEmpty(nav.languages.a, Null)
             ELSE Null
      ln2 == FirstNonEmpty(<<nav.language, nav.browserLanguage,
                             nav.systemLanguage, nav.userLanguage>>, ln1)
  IN IF Truthy(ln2) /\ full = FALSE THEN Str(Substring0(ln2.s, 2)) ELSE ln2

\* get() without its try/catch around JSON.parse
GetNoCatch(store, key) ==
  LET value == store[key]
  IN IF value # Null THEN JSONparse(value.s) ELSE Null

\* static get(key)
Get(store, key) ==
  LET value == store[key]
  IN IF value # Null
     THEN LET parsed == JSONparse(value.s)
          IN IF parsed.t = "throw" THEN Null ELSE parsed
     ELSE Null

\* set() that stores the data without JSON.stringify
SetItemRaw(store, key, data) == [store EXCEPT ![key] = Str(ToStr(data))]

\* localStorage.setItem(key, JSON.stringify(data)): the item is the string form
\* of what JSON.stringify returns
SetItem(store, key, data) ==
  [store EXCEPT ![key] = Str(ToStr(JSONstringify(data)))]

\* static getUserLanguage()
GetUserLanguage(store, nav) ==
  LET ln == Get(store, LANGUAGE_CODE)
  IN IF Truthy(ln) /\ LengthOf(ln) = Num(2) THEN ln
     ELSE GetBrowserLanguage(nav, FALSE)

\* translate() that prefers the 'en' text to the text of the active code
TranslateEnFirst(lang, code, info) ==
  IF ~Truthy(code) THEN Str(CODE_EMPTY)
  ELSE LET str1 == GetProp(code, EN)
           str == IF ~Truthy(str1) THEN GetProp(code, lang) ELSE str1
       IN PatchMarker(str, info)

\* static translate(code, info?)
Translate(lang, code, info) ==
  IF ~Truthy(code) THEN Str(CODE_EMPTY)
  ELSE LET str1 == GetProp(code, lang)
           str == IF ~Truthy(str1) THEN GetProp(code, EN) ELSE str1
       IN PatchMarker(str, info)

\* static t(code, info?)
T(lang, code, info) == Translate(lang, code, info)

----------------------------------------------------------------------------
(* The inputs the callers draw from *)

KO == <<"k", "o">>

FR == <<"f", "r">>

\* The largest number a caller stores
MaxNum == 12

\* Codes a caller writes to SimpleLibrary.languageCode
LangCodes == {EN, KO, FR}

\* Keys of localStorage
Keys == {LANGUAGE_CODE, <<"k">>}

\* JSON-serializable data handed to set()
JsonData ==
  {Null, Num(0 - 1), Num(MaxNum), Str(EN), Str(<<"a", "\"", "\\">>),
   Arr(<<Str(EN), Num(MaxNum)>>), Arr(<<Arr(<<Null>>), Bool(FALSE)>>),
   Obj(<<Prop(<<"a">>, Num(1)), Prop(<<"b", "\"">>, Arr(<<Str(KO)>>))>>)}

\* Everything handed to set(): undefined is not JSON-serializable
SetData == JsonData \cup {Undefined}

\* What localStorage may hold for a key before the library runs: nothing, or
\* text other code of the page left there
InitItems == {Null, Str(<<"{", "b">>), Str(<<"\"", "k", "o">>)}

\* Arguments of setUserLanguage()
UserCodes == {Str(EN), Str(KO), Str(<<"e", "n", "g">>)}

\* Language text maps handed to translate() and t()
Maps ==
  {Undefined, Null,
   Obj(<<Prop(EN, Str(<<"N", "a", "m", "e">>)), Prop(KO, Str(<<"I", "r", "u", "m">>))>>),
   Obj(<<Prop(KO, Str(<<"I", "r", "u", "m">>))>>),
   Obj(<<Prop(EN, Str(<<"N", "o", " ", "#", "n", "o">>)), Prop(KO, Str(<<>>))>>),
   Obj(<<Prop(EN, Str(<<>>)), Prop(FR, Str(<<"N", "o", "m", " ", "#", "n", "o">>))>>)}

\* Patch information handed to translate() and t()
Infos == {Undefined, Obj(<<>>), Obj(<<Prop(<<"n", "o">>, Num(MaxNum))>>)}

Nav(ls, l, b, s, u) ==
  [languages |-> ls, language |-> l, browserLanguage |-> b,
   systemLanguage |-> s, userLanguage |-> u]

\* window.navigator as browsers present it
Navigators ==
  {Nav(ls, l, b, s, u) :
     ls \in {Undefined, Arr(<<>>),
             Arr(<<Str(<<>>), Str(<<"k", "o", "-", "K", "R">>)>>),
             Arr(<<Str(<<"e", "n", "-", "U", "S">>), Str(KO)>>)},
     l \in {Undefined, Str(<<>>), Str(<<"f", "r", "-", "F", "R">>), Str(KO)},
     b \in {Undefined, Str(<<"d", "e">>)},
     s \in {Undefined, Str(<<"j", "a">>)},
     u \in {Undefined, Str(<<"i", "t">>)}}

\* The navigators of the runs that exercise the store
FewNavigators ==
  {Nav(Undefined, Undefined, Undefined, Undefined, Undefined),
   Nav(Arr(<<Str(<<"e", "n", "-", "U", "S">>), Str(KO)>>),
       Str(<<"e", "n", "-", "U", "S">>), Undefined, Undefined, Undefined)}

\* No set() of JSON-serializable data is the latest write of the key
NoSet == [t |-> "noset"]

Called(op, a, b, ret) == [op |-> op, a |-> a, b |-> b, ret |-> ret]

----------------------------------------------------------------------------
(* The state machine: one action per call of the library *)

Init ==
  /\ languageCode = EN
  /\ localStorage \in [Keys -> InitItems]
  /\ navigator \in FewNavigators
  /\ lastSet = [k \in Keys |-> NoSet]
  /\ call = Called("init", Undefined, Undefined, Undefined)

\* SimpleLibrary.languageCode = c
SetLanguageCode(c) ==
  /\ languageCode' = c
  /\ call' = Called("languageCode", Str(c), Undefined, Undefined)
  /\ UNCHANGED <<localStorage, navigator, lastSet>>

\* SimpleLibrary.translate(code, info)
TranslateCall(code, info) ==
  /\ call' = Called("translate", code, info, Translate(languageCode, code, info))
  /\ UNCHANGED <<languageCode, localStorage, navigator, lastSet>>

\* SimpleLibrary.t(code, info)
TCall(code, info) ==
  /\ call' = Called("t", code, info, T(languageCode, code, info))
  /\ UNCHANGED <<languageCode, localStorage, navigator, lastSet>>

\* SimpleLibrary.get(key)
GetCall(key) ==
  /\ call' = Called("get", Str(key), Undefined, Get(localStorage, key))
  /\ UNCHANGED <<languageCode, localStorage, navigator, lastSet>>

\* SimpleLibrary.set(key, data)
SetCall(key, data) ==
  /\ localStorage' = SetItem(localStorage, key, data)
  /\ lastSet' = [lastSet EXCEPT ![key] = IF data \in JsonData THEN data ELSE NoSet]
  /\ call' = Called("set", Str(key), data, Undefined)
  /\ UNCHANGED <<languageCode, navigator>>

\* SimpleLibrary.getUserLanguage()
GetUserLanguageCall ==
  /\ call' = Called("getUserLanguage", Undefined, Undefined,
                    GetUserLanguage(localStorage, navigator))
  /\ UNCHANGED <<languageCode, localStorage, navigator, lastSet>>

\* setUserLanguage() that also makes the code the active one
SetUserLanguageAndActivate(code) ==
  /\ localStorage' = SetItem(localStorage, LANGUAGE_CODE, code)
  /\ lastSet' = [lastSet EXCEPT ![LANGUAGE_CODE] = code]
  /\ languageCode' = code.s
  /\ call' = Called("setUserLanguage", code, Undefined, Undefined)
  /\ UNCHANGED navigator

\* SimpleLibrary.setUserLanguage(code): SimpleLibrary.set(LANGUAGE_CODE, code)
SetUserLanguageCall(code) ==
  /\ localStorage' = SetItem(localStorage, LANGUAGE_CODE, code)
  /\ lastSet' = [lastSet EXCEPT ![LANGUAGE_CODE] = code]
  /\ call' = Called("setUserLanguage", code, Undefined, Undefined)
  /\ UNCHANGED <<languageCode, navigator>>

\* SimpleLibrary.getBrowserLanguage(full)
GetBrowserLanguageCall(full) ==
  /\ call' = Called("getBrowserLanguage", Bool(full), Undefined,
                    GetBrowserLanguage(navigator, full))
  /\ UNCHANGED <<languageCode, localStorage, navigator, lastSet>>

Next ==
  \/ \E c \in LangCodes : SetLanguageCode(c)
  \/ \E code \in Maps, info \in Infos : TranslateCall(code, info)
  \/ \E code \in Maps, info \in Infos : TCall(code, info)
  \/ \E key \in Keys : GetCall(key)
  \/ \E key \in Keys, data \in SetData : SetCall(key, data)
  \/ GetUserLanguageCall
  \/ \E code \in UserCodes : SetUserLanguageCall(code)
  \/ \E full \in BOOLEAN : GetBrowserLanguageCall(full)

Spec == Init /\ [][Next]_vars

----------------------------------------------------------------------------
(* Browser language detection over every navigator *)

InitNav ==
  /\ languageCode = EN
  /\ localStorage = [k \in Keys |-> Null]
  /\ navigator \in Navigators
  /\ lastSet = [k \in Keys |-> NoSet]
  /\ call = Called("init", Undefined, Undefined, Undefined)

NextNav == \E full \in BOOLEAN : GetBrowserLanguageCall(full)

SpecNav == InitNav /\ [][NextNav]_vars

----------------------------------------------------------------------------
(* The pure helpers over bounded inputs *)

\* Template strings handed to patchMarker()
PatchStrs ==
  {Str(<<>>), Str(<<"U", " ", "#", "n", "o">>), Str(<<"#", "n", "o", "#", "n", "o">>),
   Str(<<"a", "#", "i", "d", " ", "#", "n", "o", "!">>)}

\* Information objects handed to patchMarker()
PatchInfos ==
  {Undefined, Null, Str(<<"n", "o">>), Obj(<<>>),
   Obj(<<Prop(<<"n", "o">>, Num(MaxNum))>>),
   Obj(<<Prop(<<"n", "o">>, Str(<<"x", "&", "y">>))>>),
   Obj(<<Prop(<<"n", "o">>, Str(<<"$", "&">>))>>),
   Obj(<<Prop(<<"n", "o">>, Str(<<"$", "$">>))>>),
   Obj(<<Prop(<<"i", "d">>, Str(<<"#", "n", "o">>)), Prop(<<"n", "o">>, Str(<<"7">>))>>),
   Obj(<<Prop(<<"n", "o">>, Str(<<"7">>)), Prop(<<"i", "d">>, Str(<<"#", "n", "o">>))>>)}

\* Arguments of isEqual()
EqArgs ==
  {Undefined, Null, Num(1), Num(MaxNum), Str(EN), Bool(TRUE),
   Arr(<<>>), Arr(<<Num(1)>>), Arr(<<Num(MaxNum)>>),
   Arr(<<Num(1), Str(EN)>>), Arr(<<Num(1), Str(KO)>>),
   Obj(<<Prop(<<"a">>, Num(1))>>), Obj(<<Prop(<<"b">>, Num(1))>>),
   Obj(<<Prop(<<"a">>, Num(1)), Prop(<<"b">>, Num(1))>>),
   Obj(<<Prop(<<"b">>, Num(1)), Prop(<<"a">>, Num(1))>>)}

\* Arguments of httpBuildQuery() and isEmpty()
QueryParams ==
  {Undefined, Null, Bool(FALSE), Bool(TRUE), Num(0), Num(MaxNum),
   Str(<<>>), Str(<<"a", "b">>), Arr(<<>>), Arr(<<Str(<<"x", " ", "y">>)>>),
   Obj(<<>>),
   Obj(<<Prop(<<"a">>, Num(1)), Prop(<<"b">>, Str(<<"x", " ", "y">>))>>),
   Obj(<<Prop(<<"a", "&", "b">>, Str(<<"=">>))>>)}

\* SimpleLibrary.patchMarker(str, info)
PatchMarkerCall(str, info) ==
  /\ call' = Called("patchMarker", str, info, PatchMarker(str, info))
  /\ UNCHANGED <<languageCode, localStorage, navigator, lastSet>>

\* SimpleLibrary.isEqual(a, b)
IsEqualCall(a, b) ==
  /\ call' = Called("isEqual", a, b, IsEqual(a, b))
  /\ UNCHANGED <<languageCode, localStorage, navigator, lastSet>>

\* SimpleLibrary.httpBuildQuery(params)
HttpBuildQueryCall(params) ==
  /\ call' = Called("httpBuildQuery", params, Undefined, HttpBuildQuery(params))
  /\ UNCHANGED <<languageCode, localStorage, navigator, lastSet>>

\* SimpleLibrary.isEmpty(what)
IsEmptyCall(what) ==
  /\ call' = Called("isEmpty", what, Undefined, Bool(IsEmpty(what)))
  /\ UNCHANGED <<languageCode, localStorage, navigator, lastSet>>

InitPure ==
  /\ languageCode = EN
  /\ localStorage = [k \in Keys |-> Null]
  /\ navigator \in FewNavigators
  /\ lastSet = [k \in Keys |-> NoSet]
  /\ call = Called("init", Undefined, Undefined, Undefined)

NextPure ==
  \/ \E str \in PatchStrs, info \in PatchInfos : PatchMarkerCall(str, info)
  \/ \E a \in EqArgs, b \in EqArgs : IsEqualCall(a, b)
  \/ \E params \in QueryParams : HttpBuildQueryCall(params)
  \/ \E what \in QueryParams : IsEmptyCall(what)

SpecPure == InitPure /\ [][NextPure]_vars

----------------------------------------------------------------------------
(* Properties *)

\* The value of key k of a language text map when it is truthy, else of 'en'
ActiveOrEn(code, k) ==
  IF Truthy(GetProp(code, k)) THEN GetProp(code, k) ELSE GetProp(code, EN)

\* C1: a write to languageCode takes effect at once, and translate(map) and
\* t(map) of a non-falsy map, without patch information, return the text of the
\* active code when that key holds a truthy value and the text of 'en'
\* (possibly undefined) otherwise.
C1_TranslateUsesActiveCode ==
  /\ call.op = "languageCode" => languageCode = call.a.s
  /\ (call.op \in {"translate", "t"} /\ Truthy(call.a) /\ call.b = Undefined)
       => call.ret = ActiveOrEn(call.a, languageCode)

C1_Witness ==
  /\ call.op = "translate"
  /\ call.b = Undefined
  /\ languageCode = KO
  /\ call.ret = Str(<<"I", "r", "u", "m">>)

\* C2: get(k) returns the data of the most recent set(k, data) of
\* JSON-serializable data, whatever was set under the other keys.
C2_RoundTrip ==
  (call.op = "get" /\ lastSet[call.a.s] # NoSet) => call.ret = lastSet[call.a.s]

C2_Witness ==
  /\ call.op = "get"
  /\ call.a = Str(<<"k">>)
  /\ call.ret = Str(<<"a", "\"", "\\">>)
  /\ lastSet[<<"k">>] = call.ret
  /\ lastSet[LANGUAGE_CODE] = Arr(<<Arr(<<Null>>), Bool(FALSE)>>)

\* The item of key k is absent or is not JSON text
AbsentOrInvalid(store, k) == store[k] = Null \/ JSONparse(store[k].s).t = "throw"

\* C3: get(key) never raises, leaves the store as it was, and returns null
\* when the key is absent or its text is not valid JSON.
C3_GetNeverRaises ==
  [][call'.op = "get" =>
       /\ call'.ret.t # "throw"
       /\ localStorage' = localStorage
       /\ AbsentOrInvalid(localStorage, call'.a.s) => call'.ret = Null]_vars

C3_Witness ==
  /\ call.op = "get"
  /\ localStorage[call.a.s] = Str(<<"u", "n", "d", "e", "f", "i", "n", "e", "d">>)
  /\ call.ret = Null

IsNonEmptyObject(x) == x.t = "object" /\ Len(x.o) > 0

\* C4: translate(map, info) with non-empty patch information and no truthy
\* text for the active code nor for 'en' does not raise and returns the falsy
\* value it found.
C4_NoSubstitutionOnMissing ==
  (/\ call.op = "translate"
   /\ Truthy(call.a)
   /\ IsNonEmptyObject(call.b)
   /\ ~Truthy(GetProp(call.a, languageCode))
   /\ ~Truthy(GetProp(call.a, EN)))
    => call.ret.t # "throw" /\ call.ret = GetProp(call.a, EN)

\* s with the first occurrence of pat replaced by text, character for character
ReplaceFirstVerbatim(s, pat, text) ==
  LET i == IndexOfSub(s, pat)
  IN IF i = 0 THEN s
     ELSE SubSeq(s, 1, i - 1) \o text \o Drop(s, i + Len(pat) - 1)

RECURSIVE VerbatimPatch(_, _)
\* The markers of the properties ps replaced one after the other, in their order
VerbatimPatch(s, ps) ==
  IF ps = <<>> THEN s
  ELSE VerbatimPatch(ReplaceFirstVerbatim(s, <<"#">> \o ps[1].k, ToStr(ps[1].v)),
                     Tail(ps))

\* C5: patchMarker(str, info) with a non-empty info object replaces, key by
\* key in insertion order, the first occurrence of '#'+key by the value
\* inserted verbatim.
C5_PatchVerbatim ==
  (call.op = "patchMarker" /\ call.a.t = "string" /\ IsNonEmptyObject(call.b))
    => call.ret = Str(VerbatimPatch(call.a.s, call.b.o))

\* The item of 'language_code' is the JSON text of a two-letter string
HoldsTwoLetterCode(store) ==
  /\ store[LANGUAGE_CODE] # Null
  /\ JSONparse(store[LANGUAGE_CODE].s).t = "string"
  /\ Len(JSONparse(store[LANGUAGE_CODE].s).s) = 2

\* C6: getUserLanguage() returns the persisted code when 'language_code'
\* holds a JSON-quoted two-letter string, and in every other state what
\* getBrowserLanguage() returns.
C6_PersistedCodePreferred ==
  call.op = "getUserLanguage" =>
    call.ret = IF HoldsTwoLetterCode(localStorage)
               THEN JSONparse(localStorage[LANGUAGE_CODE].s)
               ELSE GetBrowserLanguage(navigator, FALSE)

\* The locale sources in the order of the walk: the entries of
\* navigator.languages, then the four legacy fields
LocaleSources(nav) ==
  (IF nav.languages.t = "array" THEN nav.languages.a ELSE <<>>)
  \o <<nav.language, nav.browserLanguage, nav.systemLanguage, nav.userLanguage>>

\* C7: getBrowserLanguage(full) returns the first non-empty value of the
\* locale sources in the order of the walk, cut to two letters unless full, or
\* null when there is none.
C7_FirstSourceWins ==
  call.op = "getBrowserLanguage" =>
    LET first == FirstNonEmpty(LocaleSources(navigator), Null)
    IN call.ret = IF first = Null \/ call.a.b THEN first
                  ELSE Str(Substring0(first.s, 2))

\* A value whose typeof is not 'object'
IsScalar(x) == x.t \in {"undefined", "boolean", "number", "string"}

\* C8: isEqual on two arrays is true exactly when they have the same length and
\* equal elements at every index; on two scalars it is a === b.
C8_ArraysElementWise ==
  /\ (call.op = "isEqual" /\ call.a.t = "array" /\ call.b.t = "array")
       => call.ret = Bool(/\ Len(call.a.a) = Len(call.b.a)
                          /\ \A i \in 1..Len(call.a.a) :
                               StrictEquals(call.a.a[i], call.b.a[i]))
  /\ (call.op = "isEqual" /\ IsScalar(call.a) /\ IsScalar(call.b))
       => call.ret = Bool(StrictEquals(call.a, call.b))

\* The key=value pairs of a plain object, each side URL-encoded, joined by '&'
QueryOf(ps) ==
  Join([i \in 1..Len(ps) |->
          EncodeChars(ps[i].k) \o <<"=">> \o EncodeChars(ToStr(ps[i].v))], <<"&">>)

\* C9: httpBuildQuery(params) is null for every empty input and every input
\* that is not an object, and the joined pairs for a non-empty plain object.
C9_NullUnlessObject ==
  /\ (call.op = "httpBuildQuery"
      /\ (~Truthy(call.a) \/ call.a \in {Obj(<<>>), Arr(<<>>)}
          \/ call.a.t \notin {"array", "object"}))
       => call.ret = Null
  /\ (call.op = "httpBuildQuery" /\ IsNonEmptyObject(call.a))
       => call.ret = Str(QueryOf(call.a.o))

\* C10: setUserLanguage, set, get and getUserLanguage leave languageCode, and
\* with it every translate(map), as they were; a write to languageCode leaves
\* the store as it was.
C10_LocaleAndStoreIndependent ==
  [][/\ call'.op \in {"setUserLanguage", "set", "get", "getUserLanguage"} =>
          /\ languageCode' = languageCode
          /\ \A m \in Maps :
               Translate(languageCode', m, Undefined) = Translate(languageCode, m, Undefined)
     /\ call'.op = "languageCode" => localStorage' = localStorage]_vars

C10_Witness ==
  /\ call.op = "setUserLanguage"
  /\ call.a = Str(KO)
  /\ localStorage[LANGUAGE_CODE] = Str(Quote(KO))
  /\ languageCode = FR

====
